---- MODULE Spec2Model ----
(***************************************************************************)
(* A model of wurm, a small object-relational mapper over SQLite.          *)
(*                                                                         *)
(* The state is the stored rows of every table (db), the heap of live      *)
(* Python instances (heap), the references the caller holds (roots), and   *)
(* the per-table weak identity map (idmap).  Every public operation of     *)
(* src/wurm/tables.py and src/wurm/queries.py is one action.               *)
(***************************************************************************)
EXTENDS Integers, Sequences, FiniteSets, TLC

VARIABLES
    db,         \* table name -> set of stored rows (column name -> value);
                \* DOMAIN = the tables that have been created
    heap,       \* object id -> instance [cls, val, dict]; DOMAIN = live objects
    roots,      \* object ids the caller holds a strong reference to
    idmap,      \* table name -> (primary-key tuple -> object id): __id_map__
    connection, \* "unbound" until setup_connection binds a session: "bound"
    threads,    \* thread -> where it stands in get_object, and what it holds
    relation,   \* the relation descriptor a record type declares:
                \* [owner, name, target, lazy, found]; found is the memoized
                \* <<target_table, target_attr>>, <<>> until resolved
    registered, \* history: the live instances the engine registered (by a
                \* successful insert or by decoding a row) and has not deleted
    last        \* history: the operation just performed and its outcome

vars == <<db, heap, roots, idmap, connection, threads, relation, registered, last>>

(***************************************************************************)
(* Bounds of the model.                                                    *)
(***************************************************************************)
MaxObj == 2     \* object ids 1..MaxObj
MaxKey == 2     \* primary-key components and rowids range over 1..MaxKey
MaxVal == 0     \* data-field values range over 0..MaxVal (and None)
MaxPath == 3    \* a relation's target specifier has 1..MaxPath segments

None == -1      \* Python's None / SQL NULL; no modelled value equals it

ObjIds == 1..MaxObj
Keys == 1..MaxKey
Vals == 0..MaxVal

(***************************************************************************)
(* Sequence helpers.                                                       *)
(***************************************************************************)
\* The concatenation of the sequences ss[i], ss[i+1], ...
RECURSIVE FlattenFrom(_, _)
FlattenFrom(ss, i) == IF i > Len(ss) THEN <<>> ELSE ss[i] \o FlattenFrom(ss, i + 1)

Flatten(ss) == FlattenFrom(ss, 1)

Range(s) == {s[i] : i \in DOMAIN s}

\* The dict a sequence of <<key, value>> pairs builds (a later pair wins).
AsDict(ps) ==
    [k \in {ps[i][1] : i \in DOMAIN ps} |->
        ps[CHOOSE i \in DOMAIN ps :
              /\ ps[i][1] = k
              /\ \A j \in DOMAIN ps : ps[j][1] = k => j <= i][2]]

\* All orderings of at most n distinct elements of S, as long as possible.
RECURSIVE Orderings(_, _)
Orderings(S, n) ==
    IF n = 0 \/ S = {} THEN {<<>>}
    ELSE UNION {{<<r>> \o t : t \in Orderings(S \ {r}, n - 1)} : r \in S}

(***************************************************************************)
(* The declared record types (the classes of src/tests).                   *)
(***************************************************************************)
TableTypes == {"NonUniqueInt", "CompositeKey", "Parent", "Child", "Child2",
               "Datatypes", "MultiColumnFields", "PrimaryForeignKeyTest",
               "ForeignKeyTest2", "ForeignKeyTest3", "Left", "Right", "Item"}

\* The abstract record types a record type inherits from, and itself.
mro(t) == IF t \in {"Left", "Right"} THEN {t, "Base"} ELSE {t}

\* The record types that declare no foreign key and no relation.
PlainTypes == {"NonUniqueInt", "CompositeKey"}

\* TableMeta.__new__: __fields_info__, in get_type_hints order (base first).
fields_info(t) ==
    CASE t = "NonUniqueInt" -> << <<"rowid", "int">>, <<"x", "int">> >>
      [] t = "CompositeKey" -> << <<"part_one", "int">>, <<"part_two", "int">> >>
      [] t = "Parent" -> << <<"rowid", "int">> >>
      [] t = "Child" -> << <<"rowid", "int">>, <<"parent", "Parent">> >>
      [] t = "Child2" -> << <<"rowid", "int">>, <<"parent1", "Parent">>,
                            <<"parent2", "Parent">> >>
      \* Datatypes, with one passthrough field and the bool field
      [] t = "Datatypes" -> << <<"rowid", "int">>, <<"i", "int">>,
                               <<"boolean", "bool">> >>
      [] t = "MultiColumnFields" -> << <<"rowid", "int">>, <<"color", "Color">> >>
      \* PrimaryForeignKeyTest: its primary key is a foreign key
      [] t = "PrimaryForeignKeyTest" -> << <<"point", "Parent">> >>
      [] t = "ForeignKeyTest2" -> << <<"rowid", "int">>, <<"point", "CompositeKey">> >>
      \* a foreign key to the record type whose primary key is a foreign key
      [] t = "ForeignKeyTest3" -> << <<"rowid", "int">>,
                                     <<"target", "PrimaryForeignKeyTest">> >>
      \* two concrete subclasses of the abstract Base, and a type that refers
      \* to both
      [] t = "Left" -> << <<"rowid", "int">> >>
      [] t = "Right" -> << <<"rowid", "int">> >>
      [] t = "Item" -> << <<"rowid", "int">>, <<"left", "Left">>, <<"right", "Right">> >>

\* primary_key_fields: the fields marked Primary, in declaration order.
primary_key(t) ==
    CASE t = "CompositeKey" -> <<"part_one", "part_two">>
      [] t = "PrimaryForeignKeyTest" -> <<"point">>
      [] OTHER -> <<"rowid">>

FieldNames(t) == {fields_info(t)[i][1] : i \in DOMAIN fields_info(t)}

FieldType(t, f) ==
    fields_info(t)[CHOOSE i \in DOMAIN fields_info(t) : fields_info(t)[i][1] = f][2]

\* data_fields: the fields not marked Primary, in declaration order.
data_fields(t) ==
    SelectSeq([i \in DOMAIN fields_info(t) |-> fields_info(t)[i][1]],
              LAMBDA f : f \notin Range(primary_key(t)))

(***************************************************************************)
(* typemaps.py: the column expansion and the stored form of a value.       *)
(* Instances are read from a heap h (object id -> instance).               *)
(***************************************************************************)
\* register_dataclass(Color): a type mapped to several columns; sql_type is
\* the mapping from its field names, here in their order.
CompositeTypes == {"Color"}

sql_type(ty) == <<"r", "g", "b", "a">>

\* A Color is named by a number: its fields are that number's digits, the
\* digit 0 standing for None and the digit k + 1 for the value k.  Two Colors
\* are equal (dataclass __eq__) exactly when their numbers are.
Base == MaxVal + 2

RECURSIVE Power(_, _)
Power(b, n) == IF n = 0 THEN 1 ELSE b * Power(b, n - 1)

Colors == 0..(Power(Base, Len(sql_type("Color"))) - 1)

Channel(v, i) ==
    IF (v \div Power(Base, i - 1)) % Base = 0 THEN None
    ELSE ((v \div Power(Base, i - 1)) % Base) - 1

\* dataclasses.astuple read the fields in the wrong order (a wrong variant).
astuple_reversed(ty, v) ==
    [i \in DOMAIN sql_type(ty) |-> Channel(v, Len(sql_type(ty)) + 1 - i)]

\* dataclasses.astuple(value): the field values in declaration order.
astuple(ty, v) == [i \in DOMAIN sql_type(ty) |-> Channel(v, i)]

\* The dataclass called on the stored tuple: the instance with these field
\* values.
RECURSIVE construct(_, _, _)
construct(ty, stored_tuple, i) ==
    IF i > Len(stored_tuple) THEN 0
    ELSE (IF stored_tuple[i] = None THEN 0 ELSE stored_tuple[i] + 1) * Power(Base, i - 1)
         + construct(ty, stored_tuple, i + 1)

\* TYPE_MAPPING[ty].encode(value): passthrough for int, int for bool (False
\* and True are the integers 0 and 1), astuple for a registered dataclass.
encode(ty, v) ==
    IF ty \in CompositeTypes THEN astuple(ty, v) ELSE v

\* TYPE_MAPPING[ty].decode on the stored tuple: passthrough for int, bool for
\* bool, the constructor for a registered dataclass.
decode(ty, stored_tuple) ==
    IF ty \in CompositeTypes THEN construct(ty, stored_tuple, 1)
    ELSE IF ty = "bool" THEN (IF stored_tuple[1] = 0 THEN 0 ELSE 1)
    ELSE stored_tuple[1]

\* columns_for(field_name, python_type)
columns_for(field_name, ty) ==
    IF ty \in TableTypes
    THEN [i \in DOMAIN primary_key(ty) |-> field_name \o "_" \o primary_key(ty)[i]]
    ELSE IF ty \in CompositeTypes
    THEN [i \in DOMAIN sql_type(ty) |-> field_name \o "_" \o sql_type(ty)[i]]
    ELSE <<field_name>>

\* sql_type_for(fieldname, python_type): the columns the table declares.
RECURSIVE sql_type_for(_, _)
sql_type_for(fieldname, ty) ==
    IF ty \in TableTypes
    THEN Flatten([i \in DOMAIN primary_key(ty) |->
            sql_type_for(fieldname \o "_" \o primary_key(ty)[i],
                         FieldType(ty, primary_key(ty)[i]))])
    ELSE IF ty \in CompositeTypes
    THEN [i \in DOMAIN sql_type(ty) |-> fieldname \o "_" \o sql_type(ty)[i]]
    ELSE <<fieldname>>

(***************************************************************************)
(* sql.py: the statements, kept as the column lists they are built from.   *)
(***************************************************************************)
\* sql.create: create_fields and create_primary_key.
create_fields(t) ==
    Flatten([i \in DOMAIN fields_info(t) |->
        sql_type_for(fields_info(t)[i][1], fields_info(t)[i][2])])

create_primary_key(t) ==
    Flatten([i \in DOMAIN primary_key(t) |->
        columns_for(primary_key(t)[i], FieldType(t, primary_key(t)[i]))])

\* sql.insert: the columns listed and bound by name.
insert_columns(t) ==
    Flatten([i \in DOMAIN fields_info(t) |->
        columns_for(fields_info(t)[i][1], fields_info(t)[i][2])])

\* sql.update: "set c=:c, ..." over the data fields, "where c=:c, ..." over
\* the primary key; both lists are joined with ", ".
update_set(t) ==
    Flatten([i \in DOMAIN data_fields(t) |->
        columns_for(data_fields(t)[i], FieldType(t, data_fields(t)[i]))])

update_where(t) == create_primary_key(t)

\* sql.delete / sql.select / sql.count: an empty where gives no where clause.
has_where_clause(comparisons) == comparisons # <<>>

\* TableMeta.__new__ computes the class attributes once per record type; the
\* statements depend on them alone.
Meta ==
    [t \in TableTypes |->
        [fields_info |-> fields_info(t),
         field_names |-> FieldNames(t),
         types |-> [f \in FieldNames(t) |-> FieldType(t, f)],
         primary_key |-> primary_key(t),
         data_fields |-> data_fields(t),
         create_fields |-> create_fields(t),
         create_primary_key |-> create_primary_key(t),
         insert_columns |-> insert_columns(t),
         update_set |-> update_set(t),
         update_where |-> update_where(t),
         columns |-> [i \in DOMAIN fields_info(t) |->
                        columns_for(fields_info(t)[i][1], fields_info(t)[i][2])],
         offset |-> [i \in DOMAIN fields_info(t) |->
                        Len(Flatten([j \in 1..(i - 1) |->
                            columns_for(fields_info(t)[j][1], fields_info(t)[j][2])]))]]]

(***************************************************************************)
(* typemaps.py and tables.py: the stored form of an instance's values.     *)
(***************************************************************************)
\* to_stored(field_name, python_type, value): a sequence of <<column, cooked>>.
RECURSIVE to_stored(_, _, _, _)
to_stored(h, field_name, ty, value) ==
    IF value = None
    THEN [i \in DOMAIN columns_for(field_name, ty) |->
            <<columns_for(field_name, ty)[i], None>>]
    ELSE IF ty \in TableTypes
    THEN Flatten([i \in DOMAIN Meta[ty].primary_key |->
            to_stored(h, field_name \o "_" \o Meta[ty].primary_key[i],
                      Meta[ty].types[Meta[ty].primary_key[i]],
                      h[value].val[Meta[ty].primary_key[i]])])
    ELSE IF ty \in CompositeTypes
    THEN [i \in DOMAIN sql_type(ty) |->
            <<field_name \o "_" \o sql_type(ty)[i], encode(ty, value)[i]>>]
    ELSE << <<field_name, encode(ty, value)>> >>

\* to_stored: "assert isinstance(value, python_type)" for a foreign key.
to_stored_raises(h, ty, value) ==
    ty \in TableTypes /\ value # None /\ h[value].cls # ty

\* The cooked values of a sequence of <<column, cooked>> pairs.
Cooked(st) == [j \in DOMAIN st |-> st[j][2]]

\* primary_key_columns(item): the stored values of the primary-key fields.
primary_key_columns(h, o) ==
    LET fi == Meta[h[o].cls].fields_info
    IN  Flatten([i \in DOMAIN fi |->
            IF fi[i][1] \in Range(Meta[h[o].cls].primary_key)
            THEN Cooked(to_stored(h, fi[i][1], fi[i][2], h[o].val[fi[i][1]]))
            ELSE <<>>])

\* BaseTable._encode_row: column -> cooked value.
encode_row(h, o) ==
    LET fi == Meta[h[o].cls].fields_info
    IN  AsDict(Flatten([i \in DOMAIN fi |->
            to_stored(h, fi[i][1], fi[i][2], h[o].val[fi[i][1]])]))

\* BaseTable._primary_key: the filters of the instance's own row.
primary_key_filters(h, o) ==
    LET pk == Meta[h[o].cls].primary_key
    IN  [i \in DOMAIN pk |-> <<pk[i], [bare |-> h[o].val[pk[i]]]>>]

(***************************************************************************)
(* The storage engine behind connection.execute (SQLite).                  *)
(***************************************************************************)
\* A comparison with NULL on either side is not true.
SqlCompare(op, a, b) ==
    IF a = None \/ b = None THEN FALSE
    ELSE CASE op = "=" -> a = b
           [] op = "!=" -> a # b
           [] op = "<" -> a < b
           [] op = "<=" -> a <= b
           [] op = ">" -> a > b
           [] op = ">=" -> a >= b

\* The rows of table t that a compiled where clause selects.
RowsWhere(d, t, comparisons, values) ==
    IF has_where_clause(comparisons)
    THEN {r \in d[t] : \A i \in DOMAIN comparisons :
            SqlCompare(comparisons[i][2], r[comparisons[i][1]],
                       values[comparisons[i][1]])}
    ELSE d[t]

\* A single INTEGER primary-key column is SQLite's rowid: NULL means "assign".
IsRowidAlias(t) == Len(Meta[t].create_primary_key) = 1

MaxRowid(d, t) ==
    LET ids == {r[Meta[t].create_primary_key[1]] : r \in d[t]}
    IN  IF ids = {} THEN 0 ELSE CHOOSE m \in ids : \A k \in ids : k <= m

\* The row an insert statement stores, with the rowid SQLite assigns.
InsertedRow(d, t, params) ==
    [c \in Range(Meta[t].create_fields) |->
        IF c \notin Range(Meta[t].insert_columns) THEN None
        ELSE IF IsRowidAlias(t) /\ c = Meta[t].create_primary_key[1] /\ params[c] = None
        THEN MaxRowid(d, t) + 1
        ELSE params[c]]

\* A storage engine that enforced no primary key (a wrong variant).
InsertNeverFails(d, t, params) == FALSE

\* The statement fails (sqlite3.Error, re-raised as WurmError) when a listed
\* column is not declared, a named parameter is not bound, or the primary
\* key of the new row is already stored.
InsertFails(d, t, params) ==
    \/ ~(Range(Meta[t].insert_columns) \subseteq Range(Meta[t].create_fields))
    \/ ~(Range(Meta[t].insert_columns) \subseteq DOMAIN params)
    \/ \E row \in {InsertedRow(d, t, params)} :
         \E r \in d[t] : \A c \in Range(Meta[t].create_primary_key) : r[c] = row[c]

\* "update T set <set> where <where>" parses only with a non-empty set list
\* and a where clause of one term (the terms are joined with ", ").
UpdateFails(t, params) ==
    \/ Meta[t].update_set = <<>>
    \/ Len(Meta[t].update_where) # 1
    \/ ~(Range(Meta[t].update_set) \cup Range(Meta[t].update_where) \subseteq DOMAIN params)

UpdatedRows(d, t, params) ==
    {IF \A i \in DOMAIN Meta[t].update_where :
            SqlCompare("=", r[Meta[t].update_where[i]], params[Meta[t].update_where[i]])
     THEN [c \in DOMAIN r |-> IF c \in Range(Meta[t].update_set) THEN params[c] ELSE r[c]]
     ELSE r : r \in d[t]}

\* The tuple a select returns for a stored row: the declared column order.
RowTuple(t, r) == [i \in DOMAIN Meta[t].create_fields |-> r[Meta[t].create_fields[i]]]

(***************************************************************************)
(* The heap and the weak identity map.                                     *)
(***************************************************************************)
\* The instances an instance refers to: its foreign-key values and the lists
\* its strict relations hold.
Referents(h, o) ==
    {h[o].val[f] : f \in {g \in Meta[h[o].cls].field_names :
        Meta[h[o].cls].types[g] \in TableTypes /\ h[o].val[g] # None}}
    \cup UNION {Range(h[o].dict[r]) : r \in DOMAIN h[o].dict}

\* The instances reachable from the set S of instances.
RECURSIVE Reach(_, _)
Reach(h, S) ==
    CHOOSE R \in {IF T = S THEN S ELSE Reach(h, T) :
                    T \in {S \cup UNION {Referents(h, o) : o \in S}}} : TRUE

\* Reference counting: an instance nothing refers to is freed at once, and a
\* WeakValueDictionary drops the entries of freed instances.
LiveHeap(h, live) == [o \in live |-> h[o]]

LiveMap(live, idm) ==
    [t \in DOMAIN idm |->
        [pk \in {k \in DOMAIN idm[t] : idm[t][k] \in live} |-> idm[t][pk]]]

FreeIds(h) == ObjIds \ DOMAIN h

NewId(h) == CHOOSE o \in FreeIds(h) : \A p \in FreeIds(h) : o <= p

\* strict_relations(classdict): the relations of the class declared strict.
strict_relations(t) ==
    IF relation.owner = t /\ relation.lazy = "strict" THEN <<relation.name>> ELSE <<>>

\* dataclass __init__ followed by BaseTable.__post_init__.
NewInstance(t, values) ==
    [cls |-> t, val |-> values,
     dict |-> [r \in Range(strict_relations(t)) |-> <<>>]]

(***************************************************************************)
(* tables.py: TableMeta.get_object / add_object / del_object.              *)
(* Each returns the changed state; err names the exception raised.         *)
(***************************************************************************)
NoValues == <<>>    \* from_stored passes values=None

\* getattr(item, rel): relation defines __get__ and no __set__, so the entry
\* that __post_init__ stored in the instance __dict__ under the same name is
\* what the attribute lookup finds.
instance_getattr(item, rel) == item.dict[rel]

\* The loop of get_object over __strict_relations__.
load_strict(item) ==
    [item EXCEPT !.dict = [rel \in DOMAIN item.dict |-> instance_getattr(item, rel)]]

get_object(h, idm, t, pk, values) ==
    IF pk \in DOMAIN idm[t]
    THEN [err |-> "ok", obj |-> idm[t][pk], h |-> h, idm |-> idm, made |-> {}]
    ELSE IF values = NoValues
    THEN [err |-> "TypeError", obj |-> None, h |-> h, idm |-> idm, made |-> {}]
    ELSE IF FreeIds(h) = {}
    THEN [err |-> "NoFreeId", obj |-> None, h |-> h, idm |-> idm, made |-> {}]
    ELSE LET o == NewId(h)
             item == load_strict(NewInstance(t, values))
         IN  [err |-> "ok", obj |-> o, h |-> h @@ (o :> item),
              idm |-> [idm EXCEPT ![t] = (pk :> o) @@ idm[t]], made |-> {o}]

add_object(h, idm, o) ==
    [idm EXCEPT ![h[o].cls] = (primary_key_columns(h, o) :> o) @@ idm[h[o].cls]]

del_object_raises(h, idm, o) ==
    primary_key_columns(h, o) \notin DOMAIN idm[h[o].cls]

del_object(h, idm, o) ==
    [idm EXCEPT ![h[o].cls] =
        [pk \in DOMAIN idm[h[o].cls] \ {primary_key_columns(h, o)} |->
            idm[h[o].cls][pk]]]

(***************************************************************************)
(* queries.py: Query.__init__, decode_row and the statement methods.       *)
(***************************************************************************)
\* A filter value is a bare value [bare |-> v] or a Comparison [op, value].
ensure_comparison(v) ==
    IF "op" \in DOMAIN v THEN v ELSE [op |-> "=", value |-> v.bare]

\* A variant of encode_query_value that does not take the rowid as a field.
rejects_rowid(t, fieldname) ==
    fieldname \notin Meta[t].field_names \/ fieldname = "rowid"

\* encode_query_value raises WurmError for a name that is no field.
encode_query_value_raises(t, fieldname) == fieldname \notin Meta[t].field_names

encode_query_value(h, t, fieldname, value) ==
    to_stored(h, fieldname, Meta[t].types[fieldname], value)

\* Query.__init__: filters is the keyword dict as a sequence of <<key, value>>.
\* The <<column, operator, cooked>> terms one keyword filter compiles to.
Terms(st, op) == [j \in DOMAIN st |-> <<st[j][1], op, st[j][2]>>]

Compiled(t, terms) ==
    [err |-> "ok", table |-> t,
     values |-> AsDict([i \in DOMAIN terms |-> <<terms[i][1], terms[i][3]>>]),
     comparisons |-> [i \in DOMAIN terms |-> <<terms[i][1], terms[i][2]>>]]

Query(h, t, filters) ==
    IF \E i \in DOMAIN filters : encode_query_value_raises(t, filters[i][1])
    THEN [err |-> "WurmError", table |-> t, values |-> <<>>, comparisons |-> <<>>]
    ELSE CHOOSE q \in {Compiled(t, terms) :
            terms \in {Flatten([i \in DOMAIN filters |->
                Terms(encode_query_value(h, t, filters[i][1],
                                         ensure_comparison(filters[i][2]).value),
                      ensure_comparison(filters[i][2]).op)])}} : TRUE

\* typemaps.from_stored: a foreign key is looked up with get_object(pk, None).
from_stored_raises(idm, stored_tuple, ty) ==
    /\ \E i \in DOMAIN stored_tuple : stored_tuple[i] # None
    /\ ty \in TableTypes
    /\ stored_tuple \notin DOMAIN idm[ty]

from_stored(idm, stored_tuple, ty) ==
    IF \A i \in DOMAIN stored_tuple : stored_tuple[i] = None THEN None
    ELSE IF ty \in TableTypes THEN idm[ty][stored_tuple]
    ELSE decode(ty, stored_tuple)

\* row[off : off + n], as Python slices a tuple.
Slice(row, off, n) ==
    [k \in 1..(IF Len(row) - off < n
               THEN (IF Len(row) < off THEN 0 ELSE Len(row) - off)
               ELSE n) |-> row[off + k]]

\* decode_row: the slice of the row tuple that field i consumes.
Segment(t, row, i) == Slice(row, Meta[t].offset[i], Len(Meta[t].columns[i]))

decode_row(h, idm, t, row) ==
    LET fi == Meta[t].fields_info
        pk == Flatten([i \in DOMAIN fi |->
                IF fi[i][1] \in Range(Meta[t].primary_key) THEN Segment(t, row, i) ELSE <<>>])
        bad == {i \in DOMAIN fi : from_stored_raises(idm, Segment(t, row, i), fi[i][2])}
    IN  IF bad # {}
        THEN [err |-> "TypeError", obj |-> None, h |-> h, idm |-> idm, made |-> {}]
        ELSE IF Len(row) > Len(Meta[t].insert_columns)
        THEN [err |-> "AssertionError", obj |-> None, h |-> h, idm |-> idm, made |-> {}]
        ELSE get_object(h, idm, t, pk,
                [f \in Meta[t].field_names |->
                    LET i == CHOOSE j \in DOMAIN fi : fi[j][1] = f
                    IN  from_stored(idm, Segment(t, row, i), fi[i][2])])

\* Query.select_with_limit consumed to the end: the rows decoded in order,
\* stopping at the first row that fails to decode.  Every instance yielded
\* so far stays referenced by the consumer.
decode_next(acc, d) ==
    [err |-> d.err,
     objs |-> IF d.err = "ok" THEN Append(acc.objs, d.obj) ELSE <<>>,
     h |-> d.h, idm |-> d.idm, made |-> acc.made \cup d.made]

RECURSIVE decode_from(_, _, _, _)
decode_from(acc, t, rows, i) ==
    IF i > Len(rows) \/ acc.err # "ok" THEN acc
    ELSE CHOOSE res \in {decode_from(nxt, t, rows, i + 1) :
            nxt \in {decode_next(acc, d) :
                d \in {decode_row(acc.h, acc.idm, t, RowTuple(t, rows[i]))}}} : TRUE

decode_rows(h, idm, t, rows) ==
    decode_from([err |-> "ok", objs |-> <<>>, h |-> h, idm |-> idm, made |-> {}],
                t, rows, 1)

(***************************************************************************)
(* The caller's inputs.                                                    *)
(***************************************************************************)
Ops == {"=", "!=", "<", "<=", ">", ">="}

\* Table adds the implicit rowid field; WithoutRowid does not.
HasRowid(t) == "rowid" \in Meta[t].field_names

\* The values a caller gives a field: a rowid may be left None (assigned on
\* insert) or preset; an explicit key component is an integer; a data field
\* is an integer or None; a foreign key is a live instance or None; a bool
\* is False, True or None; a Color is any Color or None.
FieldDomain(h, t, f) ==
    IF Meta[t].types[f] \in TableTypes
    THEN {o \in DOMAIN h : h[o].cls = Meta[t].types[f]} \cup {None}
    ELSE IF Meta[t].types[f] \in CompositeTypes THEN Colors \cup {None}
    ELSE IF Meta[t].types[f] = "bool" THEN {0, 1, None}
    ELSE IF f = "rowid" THEN Keys \cup {None}
    ELSE IF f \in Range(Meta[t].primary_key) THEN Keys
    ELSE Vals \cup {None}

FieldValues(h, t) ==
    {v \in [Meta[t].field_names -> UNION {FieldDomain(h, t, f) : f \in Meta[t].field_names}] :
        \A f \in Meta[t].field_names : v[f] \in FieldDomain(h, t, f)}

\* The filter values for one key: a bare value or one of the six comparisons.
FilterValues(h, t, f) ==
    {[bare |-> v] : v \in FieldDomain(h, t, f) \cup {None}}
    \cup {[op |-> op, value |-> v] : op \in Ops, v \in FieldDomain(h, t, f) \ {None}}

\* A keyword that names no field of the record type.
UnknownFilter == << <<"z", [bare |-> 0]>> >>

\* The keyword filters a query is built with: none, a keyword that is no
\* field, any filter value on one field, or any filter value on one field
\* together with an exact value of a later field.
FilterInputs(h, t) ==
    LET fi == Meta[t].fields_info
    IN  {<<>>, UnknownFilter}
        \cup UNION {{<< <<fi[i][1], fv>> >> : fv \in FilterValues(h, t, fi[i][1])} :
                    i \in DOMAIN fi}
        \cup UNION {{<< <<fi[i][1], fv>>, <<fi[j][1], [bare |-> v]>> >> :
                        fv \in FilterValues(h, t, fi[i][1]),
                        v \in FieldDomain(h, t, fi[j][1]) \ {None}} :
                    <<i, j>> \in {p \in (DOMAIN fi) \X (DOMAIN fi) : p[1] < p[2]}}

\* Lookups by primary key: an exact value for every key field; or no filter.
RECURSIVE KeyFiltersFrom(_, _, _)
KeyFiltersFrom(h, t, keys) ==
    IF keys = <<>> THEN {<<>>}
    ELSE {<< <<Head(keys), [bare |-> v]>> >> \o rest :
            v \in FieldDomain(h, t, Head(keys)) \ {None},
            rest \in KeyFiltersFrom(h, t, Tail(keys))}

KeyFilters(h, t) == {<<>>} \cup KeyFiltersFrom(h, t, Meta[t].primary_key)

\* What the filters ask for, read directly on a stored row.
Satisfies(t, r, filters) ==
    \A i \in DOMAIN filters :
        SqlCompare(ensure_comparison(filters[i][2]).op, r[filters[i][1]],
                   ensure_comparison(filters[i][2]).value)

\* The primary-key tuple of a stored row.
RowKey(t, r) == [i \in DOMAIN Meta[t].create_primary_key |-> r[Meta[t].create_primary_key[i]]]

\* The keys of the stored rows that satisfy the filters.
Matching(d, t, filters) ==
    IF t \notin DOMAIN d THEN {}
    ELSE IF \E i \in DOMAIN filters : filters[i][1] \notin Meta[t].field_names THEN {}
    ELSE {RowKey(t, r) : r \in {x \in d[t] : Satisfies(t, x, filters)}}

(***************************************************************************)
(* The record of the operation just performed.                             *)
(***************************************************************************)
Outcome(op, t, o, out, msg, ret, n, m, nf) ==
    [op |-> op, tbl |-> t, obj |-> o, out |-> out, msg |-> msg, ret |-> ret,
     n |-> n, matched |-> m, nfilters |-> nf]

\* The caller's own steps leave no outcome.
Caller == Outcome("caller", "", None, "ok", "", <<>>, 0, {}, 0)

\* No thread but the caller's own: its steps are the actions themselves.
MainThread == <<>>

\* Every action ends by freeing what nothing refers to any more.
Complete(d, h, rts, idm, reg, res, rel) ==
    \E live \in {Reach(h, rts)} :
        /\ db' = d
        /\ heap' = LiveHeap(h, live)
        /\ roots' = rts
        /\ idmap' = LiveMap(live, idm)
        /\ connection' = connection
        /\ threads' = threads
        /\ relation' = rel
        /\ registered' = reg \cap live
        /\ last' = res

Finish(d, h, rts, idm, reg, res) == Complete(d, h, rts, idm, reg, res, relation)

\* No record type in use declares a relation.
NoRelation == [owner |-> "", name |-> "", target |-> <<>>, lazy |-> "select",
               found |-> <<>>]

\* connection.execute raises WurmError when no session is bound, and when
\* the statement names a table that was never created (sqlite3 error).
execute_raises(d, t) == connection = "unbound" \/ t \notin DOMAIN d

Refused(op, t, o, nf) ==
    Finish(db, heap, roots, idmap, registered,
           Outcome(op, t, o, "WurmError",
                   IF connection = "unbound" THEN "setup_connection() not called"
                   ELSE "no such table",
                   <<>>, 0, {}, nf))

Init ==
    /\ db = [t \in TableTypes |-> {}]
    /\ heap = <<>>
    /\ roots = {}
    /\ idmap = [t \in TableTypes |-> <<>>]
    /\ connection = "bound"
    /\ threads = MainThread
    /\ relation = NoRelation
    /\ registered = {}
    /\ last = Caller

(***************************************************************************)
(* The caller constructs, mutates and releases instances.                  *)
(***************************************************************************)
New(t, values) ==
    /\ FreeIds(heap) # {}
    /\ Finish(db, heap @@ (NewId(heap) :> NewInstance(t, values)),
              roots \cup {NewId(heap)}, idmap, registered,
              Caller)

Assign(o, f, v) ==
    /\ o \in roots
    /\ f \in Range(Meta[heap[o].cls].data_fields)
    /\ heap[o].val[f] # v
    /\ Finish(db, [heap EXCEPT ![o].val[f] = v], roots, idmap, registered, Caller)

Drop(o) ==
    /\ o \in roots
    /\ Finish(db, heap, roots \ {o}, idmap, registered, Caller)

(***************************************************************************)
(* BaseTable.insert, BaseTable.commit, Table.delete / BaseTable.delete.    *)
(***************************************************************************)
\* The instance with the rowid the insert assigned (lastrowid).
set_rowid(h, o, row) ==
    IF "rowid" \in Range(Meta[h[o].cls].primary_key)
    THEN [h EXCEPT ![o].val["rowid"] = row[Meta[h[o].cls].create_primary_key[1]]]
    ELSE h

insert(o) ==
    \E t \in {heap[o].cls}, params \in {encode_row(heap, o)} :
        /\ o \in roots
        /\ \/ /\ execute_raises(db, t)
              /\ Refused("insert", t, o, 0)
           \/ /\ ~execute_raises(db, t)
              /\ InsertFails(db, t, params)
              /\ Finish(db, heap, roots, idmap, registered,
                        Outcome("insert", t, o, "WurmError", "IntegrityError",
                                <<>>, 0, {}, 0))
           \/ /\ ~execute_raises(db, t)
              /\ ~InsertFails(db, t, params)
              /\ \E row \in {InsertedRow(db, t, params)} :
                 \E h1 \in {set_rowid(heap, o, row)} :
                    /\ \A c \in Range(Meta[t].create_primary_key) : row[c] <= MaxKey
                    /\ Finish([db EXCEPT ![t] = @ \cup {row}], h1, roots,
                              add_object(h1, idmap, o), registered \cup {o},
                              Outcome("insert", t, o, "ok", "", <<>>, 0, {}, 0))

commit(o) ==
    \E t \in {heap[o].cls}, params \in {encode_row(heap, o)} :
        /\ o \in roots
        /\ \/ /\ execute_raises(db, t)
              /\ Refused("commit", t, o, 0)
           \/ /\ ~execute_raises(db, t)
              /\ UpdateFails(t, params)
              /\ Finish(db, heap, roots, idmap, registered,
                        Outcome("commit", t, o, "WurmError", "OperationalError",
                                <<>>, 0, {}, 0))
           \/ /\ ~execute_raises(db, t)
              /\ ~UpdateFails(t, params)
              /\ Finish([db EXCEPT ![t] = UpdatedRows(db, t, params)], heap, roots,
                        idmap, registered,
                        Outcome("commit", t, o, "ok", "", <<>>, 0, {}, 0))

\* A delete statement that dropped its where clause (a wrong variant).
Query_delete_all(d, q) == d[q.table]

\* Query.delete: the rows the statement removes.
Query_delete(d, q) == RowsWhere(d, q.table, q.comparisons, q.values)

\* A delete that leaves the rowid as it was (a wrong variant).
keep_rowid(h, o) == h

\* Table.delete resets the rowid after BaseTable.delete has returned.
reset_rowid(h, o) ==
    IF HasRowid(h[o].cls) THEN [h EXCEPT ![o].val["rowid"] = None] ELSE h

\* Table.delete raises before anything is done when the rowid is None.
not_in_database(h, o) == HasRowid(h[o].cls) /\ h[o].val["rowid"] = None

delete(o) ==
    \E t \in {heap[o].cls} :
        /\ o \in roots
        /\ \/ /\ not_in_database(heap, o)
              /\ Finish(db, heap, roots, idmap, registered,
                        Outcome("delete", t, o, "ValueError", "not in database",
                                <<>>, 0, {}, 0))
           \/ /\ ~not_in_database(heap, o)
              /\ execute_raises(db, t)
              /\ Refused("delete", t, o, 0)
           \/ /\ ~not_in_database(heap, o)
              /\ ~execute_raises(db, t)
              /\ \E gone \in {Query_delete(db, Query(heap, t,
                                                      primary_key_filters(heap, o)))} :
                 \/ /\ del_object_raises(heap, idmap, o)
                    /\ Finish([db EXCEPT ![t] = @ \ gone], heap, roots, idmap,
                              registered,
                              Outcome("delete", t, o, "KeyError", "", <<>>,
                                      Cardinality(gone), {}, 0))
                 \/ /\ ~del_object_raises(heap, idmap, o)
                    /\ Finish([db EXCEPT ![t] = @ \ gone], reset_rowid(heap, o), roots,
                              del_object(heap, idmap, o), registered \ {o},
                              Outcome("delete", t, o, "ok", "", <<>>,
                                      Cardinality(gone), {}, 0))

(***************************************************************************)
(* Query.__len__, Query.first / Query.one, iteration and Query.delete.     *)
(* The storage engine returns the selected rows in an order of its own.    *)
(***************************************************************************)
InvalidQuery(op, t, filters) ==
    Finish(db, heap, roots, idmap, registered,
           Outcome(op, t, None, "WurmError", "invalid query", <<>>, 0, {},
                   Len(filters)))

count(t, filters) ==
    \E q \in {Query(heap, t, filters)}, m \in {Matching(db, t, filters)} :
        \/ /\ q.err # "ok"
           /\ InvalidQuery("count", t, filters)
        \/ /\ q.err = "ok"
           /\ execute_raises(db, t)
           /\ Refused("count", t, None, Len(filters))
        \/ /\ q.err = "ok"
           /\ ~execute_raises(db, t)
           /\ Finish(db, heap, roots, idmap, registered,
                     Outcome("count", t, None, "ok", "", <<>>,
                             Cardinality(RowsWhere(db, t, q.comparisons, q.values)),
                             m, Len(filters)))

\* Query._only_first(of=limit): "i, = self.select_with_limit(limit)" reads
\* every returned row, then fails unless there was exactly one.
only_first(op, t, filters, limit) ==
    \E q \in {Query(heap, t, filters)}, m \in {Matching(db, t, filters)} :
        \/ /\ q.err # "ok"
           /\ InvalidQuery(op, t, filters)
        \/ /\ q.err = "ok"
           /\ execute_raises(db, t)
           /\ Refused(op, t, None, Len(filters))
        \/ /\ q.err = "ok"
           /\ ~execute_raises(db, t)
           /\ \E rows \in Orderings(RowsWhere(db, t, q.comparisons, q.values), limit) :
              \E d \in {decode_rows(heap, idmap, t, rows)} :
                /\ d.err # "NoFreeId"
                /\ \/ /\ d.err # "ok"
                      /\ Finish(db, heap, roots, idmap, registered,
                                Outcome(op, t, None, d.err, "", <<>>, 0, m, Len(filters)))
                   \/ /\ d.err = "ok" /\ Len(rows) = 0
                      /\ Finish(db, heap, roots, idmap, registered,
                                Outcome(op, t, None, "WurmError",
                                        "not enough rows returned", <<>>, 0, m,
                                        Len(filters)))
                   \/ /\ d.err = "ok" /\ Len(rows) > 1
                      /\ Finish(db, d.h, roots, d.idm, registered \cup d.made,
                                Outcome(op, t, None, "WurmError",
                                        "too many rows returned", <<>>, 0, m,
                                        Len(filters)))
                   \/ /\ d.err = "ok" /\ Len(rows) = 1
                      /\ Finish(db, d.h, roots \cup Range(d.objs), d.idm,
                                registered \cup d.made,
                                Outcome(op, t, d.objs[1], "ok", "", d.objs, 1, m,
                                        Len(filters)))

\* Wrong variants: first() reading two rows, one() reading a single row.
first_of_two(t, filters) == only_first("first", t, filters, 2)

one_of_one(t, filters) == only_first("one", t, filters, 1)

first(t, filters) == only_first("first", t, filters, 1)

one(t, filters) == only_first("one", t, filters, 2)

\* list(query): Query.__iter__ consumed to the end.
iterate(t, filters) ==
    \E q \in {Query(heap, t, filters)}, m \in {Matching(db, t, filters)} :
        \/ /\ q.err # "ok"
           /\ InvalidQuery("iterate", t, filters)
        \/ /\ q.err = "ok"
           /\ execute_raises(db, t)
           /\ Refused("iterate", t, None, Len(filters))
        \/ /\ q.err = "ok"
           /\ ~execute_raises(db, t)
           /\ \E sel \in {RowsWhere(db, t, q.comparisons, q.values)} :
              \E rows \in Orderings(sel, Cardinality(sel)) :
              \E d \in {decode_rows(heap, idmap, t, rows)} :
                /\ d.err # "NoFreeId"
                /\ \/ /\ d.err # "ok"
                      /\ Finish(db, heap, roots, idmap, registered,
                                Outcome("iterate", t, None, d.err, "", <<>>, 0, m,
                                        Len(filters)))
                   \/ /\ d.err = "ok"
                      /\ Finish(db, d.h, roots \cup Range(d.objs), d.idm,
                                registered \cup d.made,
                                Outcome("iterate", t, None, "ok", "", d.objs,
                                        Len(rows), m, Len(filters)))

query_delete(t, filters) ==
    \E q \in {Query(heap, t, filters)}, m \in {Matching(db, t, filters)} :
        \/ /\ q.err # "ok"
           /\ InvalidQuery("query_delete", t, filters)
        \/ /\ q.err = "ok"
           /\ execute_raises(db, t)
           /\ Refused("query_delete", t, None, Len(filters))
        \/ /\ q.err = "ok"
           /\ ~execute_raises(db, t)
           /\ \E gone \in {Query_delete(db, q)} :
                Finish([db EXCEPT ![t] = @ \ gone], heap, roots, idmap, registered,
                       Outcome("query_delete", t, None, "ok", "", <<>>,
                               Cardinality(gone), m, Len(filters)))

(***************************************************************************)
(* TableMeta.query builds a Query and executes nothing.  The record of the *)
(* step also holds the keywords the caller gave.                           *)
(***************************************************************************)
FilterKeys(filters) == {filters[i][1] : i \in DOMAIN filters}

query(t, filters) ==
    \E q \in {Query(heap, t, filters)} :
        Finish(db, heap, roots, idmap, registered,
               Outcome("query", t, None, q.err,
                       IF q.err = "ok" THEN "" ELSE "invalid query",
                       <<>>, 0, {}, Len(filters))
               @@ [keys |-> FilterKeys(filters)])

(***************************************************************************)
(* connection.setup_connection binds the session and creates the tables of *)
(* the record types declared so far.                                       *)
(***************************************************************************)
create_tables(declared) == [t \in declared |-> {}]

setup_connection(declared) ==
    /\ connection = "unbound"
    /\ connection' = "bound"
    /\ db' = create_tables(declared)
    /\ last' = [Caller EXCEPT !.op = "setup_connection"]
    /\ UNCHANGED <<heap, roots, idmap, threads, relation, registered>>

(***************************************************************************)
(* tables.py: the relation descriptor.  The namespace is the module that   *)
(* declares the record types; it also holds one function.                  *)
(***************************************************************************)
Functions == {"test_relation_1"}

Module == [kind |-> "module", name |-> ""]
TableObject(t) == [kind |-> "table", name |-> t]
OtherObject == [kind |-> "object", name |-> ""]
Missing == [kind |-> "missing", name |-> ""]    \* getattr raises AttributeError

\* getattr(ns, name) on the module, on a record type (whose only attribute
\* among the names used is the rowid default, None) or on any other object.
getattr(ns, name) ==
    CASE ns.kind = "module" ->
            IF name \in TableTypes THEN TableObject(name)
            ELSE IF name \in Functions THEN OtherObject
            ELSE Missing
      [] ns.kind = "table" ->
            IF name = "rowid" /\ HasRowid(ns.name) THEN OtherObject ELSE Missing
      [] OTHER -> Missing

\* "for name in search_path[:-1]: ns = getattr(ns, name)"
RECURSIVE walk(_, _, _)
walk(ns, search_path, i) ==
    IF i >= Len(search_path) \/ ns.kind = "missing" THEN ns
    ELSE walk(getattr(ns, search_path[i]), search_path, i + 1)

Resolved(t, f) == [err |-> "ok", msg |-> "", table |-> t, attr |-> f]

Unresolved(err, msg) == [err |-> err, msg |-> msg, table |-> "", attr |-> ""]

\* The fields of the target declared with the owner's type.
possible_attrs(target_table, owner) ==
    {f \in Meta[target_table].field_names : Meta[target_table].types[f] = owner}

\* _find_target with target_attr None.
find_field(target_table, owner) ==
    IF possible_attrs(target_table, owner) = {}
    THEN Unresolved("TypeError", "does not have a field")
    ELSE IF Cardinality(possible_attrs(target_table, owner)) > 1
    THEN Unresolved("TypeError", "multiple fields")
    ELSE Resolved(target_table, CHOOSE f \in possible_attrs(target_table, owner) : TRUE)

\* _find_target with an explicit target_attr.
check_field(target_table, target_attr, owner) ==
    IF target_attr \notin Meta[target_table].field_names
    THEN Unresolved("KeyError", "")
    ELSE IF Meta[target_table].types[target_attr] # owner
    THEN Unresolved("TypeError", "is not")
    ELSE Resolved(target_table, target_attr)

\* The second half of _find_target, from the object the path prefix names.
find_from(ns, final, owner) ==
    IF ns.kind = "missing" THEN Unresolved("AttributeError", "")
    ELSE IF ns.kind = "table" THEN check_field(ns.name, final, owner)
    ELSE IF getattr(ns, final).kind = "missing" THEN Unresolved("AttributeError", "")
    ELSE IF getattr(ns, final).kind # "table"
    THEN Unresolved("TypeError", "invalid target")
    ELSE find_field(getattr(ns, final).name, owner)

\* relation._find_target(owner); search_path is target.split('.').
find_target(search_path, owner) ==
    find_from(walk(Module, search_path, 1), search_path[Len(search_path)], owner)

\* relation.__get__ resolves the target unless it is memoized.
resolve(rel, owner) ==
    IF rel.found # <<>> THEN Resolved(rel.found[1], rel.found[2])
    ELSE find_target(rel.target, owner)

\* instance.<relation name>: the instance __dict__ entry of a strict relation
\* is found first; otherwise relation.__get__(instance, type(instance)) runs.
get(o) ==
    \E rel \in {relation} :
        /\ o \in roots
        /\ rel.owner \in mro(heap[o].cls)
        /\ \/ /\ rel.name \in DOMAIN heap[o].dict
              /\ Finish(db, heap, roots \cup Range(instance_getattr(heap[o], rel.name)),
                        idmap, registered,
                        Outcome("relation", "", o, "ok", "", instance_getattr(heap[o], rel.name),
                                Len(instance_getattr(heap[o], rel.name)), {}, 0))
           \/ /\ rel.name \notin DOMAIN heap[o].dict
              /\ \E f \in {resolve(rel, heap[o].cls)} :
                 \/ /\ f.err # "ok"
                    /\ Finish(db, heap, roots, idmap, registered,
                              Outcome("relation", "", o, f.err, f.msg, <<>>, 0, {}, 0))
                 \/ /\ f.err = "ok"
                    /\ to_stored_raises(heap, Meta[f.table].types[f.attr], o)
                    /\ Complete(db, heap, roots, idmap, registered,
                                Outcome("relation", f.table, o, "AssertionError", "",
                                        <<>>, 0, {}, 1),
                                [rel EXCEPT !.found = <<f.table, f.attr>>])
                 \/ /\ f.err = "ok"
                    /\ ~to_stored_raises(heap, Meta[f.table].types[f.attr], o)
                    /\ \E q \in {Query(heap, f.table, << <<f.attr, [bare |-> o]>> >>)},
                          memo \in {[rel EXCEPT !.found = <<f.table, f.attr>>]} :
                       \E sel \in {IF execute_raises(db, f.table) THEN {}
                                   ELSE RowsWhere(db, f.table, q.comparisons, q.values)} :
                       \/ /\ rel.lazy # "query"
                          /\ execute_raises(db, f.table)
                          /\ Complete(db, heap, roots, idmap, registered,
                                      Outcome("relation", f.table, o, "WurmError",
                                              "no such table", <<>>, 0, {}, 1),
                                      memo)
                       \/ /\ rel.lazy = "query"
                          /\ Complete(db, heap, roots, idmap, registered,
                                      Outcome("relation", f.table, o, "ok", "query", <<>>,
                                              0, {RowKey(f.table, r) : r \in sel}, 1),
                                      memo)
                       \/ /\ rel.lazy # "query"
                          /\ ~execute_raises(db, f.table)
                          /\ \E rows \in Orderings(sel, Cardinality(sel)) :
                             \E d \in {decode_rows(heap, idmap, f.table, rows)} :
                                /\ d.err # "NoFreeId"
                                /\ \/ /\ d.err # "ok"
                                      /\ Complete(db, heap, roots, idmap, registered,
                                                  Outcome("relation", f.table, o, d.err,
                                                          "", <<>>, 0,
                                                          {RowKey(f.table, r) : r \in sel}, 1),
                                                  memo)
                                   \/ /\ d.err = "ok"
                                      /\ Complete(db, d.h, roots \cup Range(d.objs), d.idm,
                                                  registered \cup d.made,
                                                  Outcome("relation", f.table, o, "ok", "",
                                                          d.objs, Len(rows),
                                                          {RowKey(f.table, r) : r \in sel}, 1),
                                                  memo)

(***************************************************************************)
(* Spec: the life cycle of instances of the record types without foreign   *)
(* keys, with lookups by primary key.  The caller works on one record type *)
(* at a time: another type is taken up once nothing of the first is left.  *)
(***************************************************************************)
Session(t) ==
    /\ \A o \in DOMAIN heap : heap[o].cls = t
    /\ \A u \in TableTypes \ {t} : db[u] = {}

Next ==
    \/ \E t \in PlainTypes : \E v \in FieldValues(heap, t) : Session(t) /\ New(t, v)
    \/ \E o \in DOMAIN heap : \E f \in Meta[heap[o].cls].field_names :
         \E v \in FieldDomain(heap, heap[o].cls, f) : Assign(o, f, v)
    \/ \E o \in DOMAIN heap : Drop(o)
    \/ \E o \in DOMAIN heap : insert(o)
    \/ \E o \in DOMAIN heap : commit(o)
    \/ \E o \in DOMAIN heap : delete(o)
    \/ \E t \in PlainTypes : \E fl \in KeyFilters(heap, t) : Session(t) /\ one(t, fl)
    \/ \E t \in PlainTypes : Session(t) /\ iterate(t, <<>>)
    \/ \E t \in PlainTypes : \E fl \in KeyFilters(heap, t) :
         Session(t) /\ query_delete(t, fl)

Spec == Init /\ [][Next]_vars

(***************************************************************************)
(* SpecQuery: every query operation with every filter, on every content    *)
(* of one table.  The caller releases the instances of one result before   *)
(* it runs the next query.                                                 *)
(***************************************************************************)
QueryTable == "NonUniqueInt"

AllRows(t) ==
    {r \in [Range(Meta[t].create_fields) -> Keys \cup Vals \cup {None}] :
        \A c \in DOMAIN r :
            IF c \in Range(Meta[t].create_primary_key) THEN r[c] \in Keys
            ELSE r[c] \in Vals \cup {None}}

\* The contents a table can have: no two rows share a primary key.
TableContents(t) ==
    {S \in SUBSET AllRows(t) :
        \A r1, r2 \in S : RowKey(t, r1) = RowKey(t, r2) => r1 = r2}

QueryFilters == FilterInputs(<<>>, QueryTable)

InitQuery ==
    /\ db \in {[t \in TableTypes |-> IF t = QueryTable THEN c ELSE {}] :
                 c \in TableContents(QueryTable)}
    /\ heap = <<>>
    /\ roots = {}
    /\ idmap = [t \in TableTypes |-> <<>>]
    /\ connection = "bound"
    /\ threads = MainThread
    /\ relation = NoRelation
    /\ registered = {}
    /\ last = Caller

NextQuery ==
    \/ \E o \in DOMAIN heap : Drop(o)
    \/ roots = {} /\ \E fl \in QueryFilters : count(QueryTable, fl)
    \/ roots = {} /\ \E fl \in QueryFilters : first(QueryTable, fl)
    \/ roots = {} /\ \E fl \in QueryFilters : one(QueryTable, fl)
    \/ roots = {} /\ \E fl \in QueryFilters : iterate(QueryTable, fl)
    \/ roots = {} /\ \E fl \in QueryFilters : query_delete(QueryTable, fl)

SpecQuery == InitQuery /\ [][NextQuery]_vars

(***************************************************************************)
(* SpecTarget: a relation declared on Parent with every target specifier   *)
(* and every loading strategy, accessed on instances of Parent.            *)
(***************************************************************************)
Names == {"Child", "Child2", "NonUniqueInt", "test_relation_1", "nope", "parent",
          "rowid"}

Targets == UNION {[1..n -> Names] : n \in 1..MaxPath}

Strategies == {"select", "query", "strict"}

Declared(target, lazy) ==
    [owner |-> "Parent", name |-> "children", target |-> target, lazy |-> lazy,
     found |-> <<>>]

\* A Table instance is constructed without a rowid (init=False).
Fresh(h, t) == {v \in FieldValues(h, t) : HasRowid(t) => v["rowid"] = None}

InitTarget ==
    /\ db = [t \in TableTypes |-> {}]
    /\ heap = <<>>
    /\ roots = {}
    /\ idmap = [t \in TableTypes |-> <<>>]
    /\ connection = "bound"
    /\ threads = MainThread
    /\ relation \in {Declared(target, lazy) : target \in Targets, lazy \in Strategies}
    /\ registered = {}
    /\ last = Caller

NextTarget ==
    \/ \E v \in Fresh(heap, "Parent") : New("Parent", v)
    \/ \E o \in DOMAIN heap : Drop(o)
    \/ \E o \in DOMAIN heap : get(o)

SpecTarget == InitTarget /\ [][NextTarget]_vars

(***************************************************************************)
(* SpecRel: Parent declares children = relation('Child') with each loading *)
(* strategy; parents and children are inserted, released and loaded again, *)
(* and the relation is accessed.                                           *)
(***************************************************************************)
RelTypes == {"Parent", "Child"}

InitRel ==
    /\ db = [t \in TableTypes |-> {}]
    /\ heap = <<>>
    /\ roots = {}
    /\ idmap = [t \in TableTypes |-> <<>>]
    /\ connection = "bound"
    /\ threads = MainThread
    /\ relation \in {Declared(<<"Child">>, lazy) : lazy \in Strategies}
    /\ registered = {}
    /\ last = Caller

NextRel ==
    \/ \E t \in RelTypes : \E v \in Fresh(heap, t) : New(t, v)
    \/ \E o \in DOMAIN heap : Drop(o)
    \/ \E o \in DOMAIN heap : insert(o)
    \/ \E t \in RelTypes : \E fl \in KeyFilters(heap, t) : one(t, fl)
    \/ \E t \in RelTypes : iterate(t, <<>>)
    \/ \E o \in DOMAIN heap : get(o)

SpecRel == InitRel /\ [][NextRel]_vars

(***************************************************************************)
(* SpecCodec: instances with a bool field and with a field of a registered *)
(* dataclass are inserted, released and read back, one at a time.          *)
(***************************************************************************)
CodecTypes == {"Datatypes", "MultiColumnFields"}

NextCodec ==
    \/ \E t \in CodecTypes : \E v \in Fresh(heap, t) :
         roots = {} /\ Session(t) /\ New(t, v)
    \/ \E o \in DOMAIN heap : Drop(o)
    \/ \E o \in DOMAIN heap : insert(o)
    \/ \E t \in CodecTypes : \E fl \in KeyFilters(heap, t) :
         roots = {} /\ Session(t) /\ one(t, fl)

SpecCodec == Init /\ [][NextCodec]_vars

(***************************************************************************)
(* SpecSession: the session is bound while some of the record types have   *)
(* been declared; the others are declared after it.  Queries are built and *)
(* run, and instances inserted, before and after the session is bound; the *)
(* caller stores one row at a time.                                        *)
(***************************************************************************)
SessionTypes == PlainTypes

\* A keyword filter on the rowid.
RowidFilters == {<< <<"rowid", [bare |-> k]>> >> : k \in Keys}

InitSession ==
    /\ db = <<>>
    /\ heap = <<>>
    /\ roots = {}
    /\ idmap = [t \in TableTypes |-> <<>>]
    /\ connection = "unbound"
    /\ threads = MainThread
    /\ relation = NoRelation
    /\ registered = {}
    /\ last = Caller

NextSession ==
    \/ \E declared \in SUBSET SessionTypes : setup_connection(declared)
    \/ \E t \in SessionTypes : \E v \in FieldValues(heap, t) : roots = {} /\ New(t, v)
    \/ \E o \in DOMAIN heap : Drop(o)
    \/ \E o \in DOMAIN heap : (\A u \in DOMAIN db : db[u] = {}) /\ insert(o)
    \/ \E t \in SessionTypes : \E fl \in FilterInputs(heap, t) \cup RowidFilters :
         query(t, fl)
    \/ \E t \in SessionTypes : \E fl \in {<<>>, UnknownFilter} : count(t, fl)
    \/ \E t \in SessionTypes : \E fl \in KeyFilters(heap, t) : roots = {} /\ one(t, fl)
    \/ \E t \in SessionTypes : \E fl \in KeyFilters(heap, t) : roots = {} /\ first(t, fl)
    \/ \E t \in SessionTypes : roots = {} /\ iterate(t, <<>>)
    \/ \E t \in SessionTypes : \E fl \in KeyFilters(heap, t) : query_delete(t, fl)

SpecSession == InitSession /\ [][NextSession]_vars

(***************************************************************************)
(* SpecThreads: two threads, each with a session of its own on the same    *)
(* storage, decode stored rows of one record type.  A thread may be        *)
(* scheduled between any two statements of TableMeta.get_object.           *)
(***************************************************************************)
Threads == {1, 2}

ThreadTable == "NonUniqueInt"

Idle == [pc |-> "idle", row |-> <<>>, item |-> None, result |-> None, err |-> "ok"]

\* decode_row: the primary key and the field values read from a stored row.
row_pk(t, r) == RowKey(t, r)

row_values(idm, t, r) ==
    [f \in Meta[t].field_names |->
        from_stored(idm, Segment(t, RowTuple(t, r),
                                 CHOOSE j \in DOMAIN Meta[t].fields_info :
                                     Meta[t].fields_info[j][1] = f),
                    Meta[t].types[f])]

\* The instances a thread refers to: the local item of get_object and the
\* instance it was returned.
Held(thr) == {thr[th].item : th \in DOMAIN thr} \cup {thr[th].result : th \in DOMAIN thr}

ThreadStep(h, idm, thr, reg) ==
    \E live \in {Reach(h, Held(thr) \ {None})} :
        /\ heap' = LiveHeap(h, live)
        /\ roots' = Held(thr) \ {None}
        /\ idmap' = LiveMap(live, idm)
        /\ threads' = thr
        /\ registered' = reg \cap live
        /\ last' = Caller
        /\ UNCHANGED <<db, connection, relation>>

\* The thread's query has selected a row; decode_row calls get_object.
begin(th, r) ==
    /\ threads[th].pc = "idle"
    /\ threads[th].result = None
    /\ ThreadStep(heap, idmap, [threads EXCEPT ![th] = [Idle EXCEPT !.pc = "check", !.row = r]],
                  registered)

\* get_object: "if pk not in self.__id_map__".
check(th) ==
    /\ threads[th].pc = "check"
    /\ ThreadStep(heap, idmap,
                  [threads EXCEPT ![th].pc =
                      IF row_pk(ThreadTable, threads[th].row) \in DOMAIN idmap[ThreadTable]
                      THEN "return" ELSE "store"],
                  registered)

\* get_object: the instance is constructed from the values and stored in
\* __id_map__[pk]; then the rowid and the strict relations.
store(th) ==
    /\ threads[th].pc = "store"
    /\ FreeIds(heap) # {}
    /\ \E o \in {NewId(heap)} :
         ThreadStep(heap @@ (o :> load_strict(NewInstance(ThreadTable,
                                row_values(idmap, ThreadTable, threads[th].row)))),
                    [idmap EXCEPT ![ThreadTable] =
                        (row_pk(ThreadTable, threads[th].row) :> o) @@ @],
                    [threads EXCEPT ![th].pc = "return", ![th].item = o],
                    registered \cup {o})

\* get_object: "return self.__id_map__[pk]"; the local item goes out of scope.
return(th) ==
    /\ threads[th].pc = "return"
    /\ \E pk \in {row_pk(ThreadTable, threads[th].row)} :
         ThreadStep(heap, idmap,
                    [threads EXCEPT ![th] =
                        IF pk \in DOMAIN idmap[ThreadTable]
                        THEN [@ EXCEPT !.pc = "idle", !.item = None,
                                       !.result = idmap[ThreadTable][pk]]
                        ELSE [@ EXCEPT !.pc = "idle", !.item = None, !.err = "KeyError"]],
                    registered)

\* The thread lets go of the instance it was returned.
release(th) ==
    /\ threads[th].pc = "idle"
    /\ threads[th].result # None
    /\ ThreadStep(heap, idmap, [threads EXCEPT ![th] = Idle], registered)

InitThreads ==
    /\ db \in {[t \in TableTypes |-> IF t = ThreadTable THEN c ELSE {}] :
                 c \in TableContents(ThreadTable) \ {{}}}
    /\ heap = <<>>
    /\ roots = {}
    /\ idmap = [t \in TableTypes |-> <<>>]
    /\ connection = "bound"
    /\ threads = [th \in Threads |-> Idle]
    /\ relation = NoRelation
    /\ registered = {}
    /\ last = Caller

NextThreads ==
    \/ \E th \in Threads : \E r \in db[ThreadTable] : begin(th, r)
    \/ \E th \in Threads : check(th)
    \/ \E th \in Threads : store(th)
    \/ \E th \in Threads : return(th)
    \/ \E th \in Threads : release(th)

SpecThreads == InitThreads /\ [][NextThreads]_vars

(***************************************************************************)
(* SpecColumns: the column expansion of every field of instances of the    *)
(* record types with foreign keys and multi-column fields.                 *)
(***************************************************************************)
ColumnTypes == {"Parent", "CompositeKey", "MultiColumnFields", "PrimaryForeignKeyTest",
                "ForeignKeyTest2", "ForeignKeyTest3"}

\* The column names of a sequence of <<column, cooked>> pairs.
Columns(st) == [j \in DOMAIN st |-> st[j][1]]

\* columns_for, to_stored (of the field's value and of None) and
\* sql_type_for applied to field f of the instance o.
expand(o, f) ==
    /\ o \in roots
    /\ \E ty \in {Meta[heap[o].cls].types[f]} :
         Finish(db, heap, roots, idmap, registered,
                Outcome("expand", heap[o].cls, o, "ok", f, <<>>, 0, {}, 0)
                @@ [columns_for |-> columns_for(f, ty),
                    to_stored |-> Columns(to_stored(heap, f, ty, heap[o].val[f])),
                    to_stored_none |-> Columns(to_stored(heap, f, ty, None)),
                    sql_type_for |-> sql_type_for(f, ty)])

NextColumns ==
    \/ \E t \in ColumnTypes : \E v \in FieldValues(heap, t) : New(t, v)
    \/ \E o \in DOMAIN heap : Drop(o)
    \/ \E o \in DOMAIN heap : \E f \in Meta[heap[o].cls].field_names : expand(o, f)

SpecColumns == Init /\ [][NextColumns]_vars

(***************************************************************************)
(* SpecInherit: one relation declared on the abstract Base and inherited   *)
(* by Left and Right, with target Item; instances of the three types are   *)
(* inserted, one row a table, and the relation is accessed on the owners.  *)
(***************************************************************************)
InheritTypes == {"Left", "Right", "Item"}

Inherited(lazy) ==
    [owner |-> "Base", name |-> "items", target |-> <<"Item">>, lazy |-> lazy,
     found |-> <<>>]

InitInherit ==
    /\ db = [t \in TableTypes |-> {}]
    /\ heap = <<>>
    /\ roots = {}
    /\ idmap = [t \in TableTypes |-> <<>>]
    /\ connection = "bound"
    /\ threads = MainThread
    /\ relation \in {Inherited(lazy) : lazy \in Strategies}
    /\ registered = {}
    /\ last = Caller

NextInherit ==
    \/ \E t \in InheritTypes : \E v \in Fresh(heap, t) : New(t, v)
    \/ \E o \in DOMAIN heap : Drop(o)
    \/ \E o \in DOMAIN heap : db[heap[o].cls] = {} /\ insert(o)
    \/ \E o \in DOMAIN heap : get(o)

SpecInherit == InitInherit /\ [][NextInherit]_vars

(***************************************************************************)
(* SpecCached: instances are inserted, one row a table, changed in memory  *)
(* without a commit, and their rows are selected again while they live.    *)
(***************************************************************************)
CachedTypes == {"NonUniqueInt", "Parent", "Child"}

NextCached ==
    \/ \E t \in CachedTypes : \E v \in Fresh(heap, t) : New(t, v)
    \/ \E o \in DOMAIN heap : \E f \in Meta[heap[o].cls].field_names :
         \E v \in FieldDomain(heap, heap[o].cls, f) : Assign(o, f, v)
    \/ \E o \in DOMAIN heap : Drop(o)
    \/ \E o \in DOMAIN heap : db[heap[o].cls] = {} /\ insert(o)
    \/ \E t \in CachedTypes : \E fl \in KeyFilters(heap, t) : one(t, fl)
    \/ \E t \in CachedTypes : iterate(t, <<>>)

SpecCached == Init /\ [][NextCached]_vars

(***************************************************************************)
(* Properties of the identity map and of insert (checked under Spec).      *)
(***************************************************************************)
SameKey(o1, o2) ==
    /\ heap[o1].cls = heap[o2].cls
    /\ primary_key_columns(heap, o1) = primary_key_columns(heap, o2)

\* C1: there are never two distinct live instances registered by the engine
\* (by a successful insert or by decoding a row) that carry the same
\* primary-key tuple of the same record type.
OneInstancePerKey ==
    \A o1, o2 \in registered : SameKey(o1, o2) => o1 = o2

\* C2: a query that returns the stored row with the primary key of a
\* registered instance that is still referenced yields that very instance.
QueryReturnsRegisteredInstance ==
    (last.op \in {"one", "iterate"} /\ last.out = "ok") =>
        \A r \in Range(last.ret) : \A p \in registered \cap roots :
            SameKey(p, r) => p = r

\* The stored row whose primary key is the one the instance carries.
StoredUnderKey(o) ==
    {r \in db[heap[o].cls] : RowKey(heap[o].cls, r) = primary_key_columns(heap, o)}

\* C6: an insert whose primary-key tuple differs from that of every stored
\* row succeeds and stores the row; an insert whose full primary-key tuple
\* equals that of a stored row raises the duplicate-key error (WurmError
\* caused by sqlite3.IntegrityError) and leaves the stored rows and the
\* identity map unchanged.
InsertStep(o) ==
    /\ o \in DOMAIN heap
    /\ last'.op = "insert"
    /\ last'.obj = o

DuplicateKeyRejected ==
    [][\A o \in ObjIds : InsertStep(o) =>
        IF StoredUnderKey(o) # {}
        THEN /\ last'.out = "WurmError"
             /\ last'.msg = "IntegrityError"
             /\ db' = db
             /\ idmap' = idmap
        ELSE /\ last'.out = "ok"
             /\ Cardinality(db'[heap[o].cls]) = Cardinality(db[heap[o].cls]) + 1
             /\ db[heap[o].cls] \subseteq db'[heap[o].cls]
             /\ idmap'[heap[o].cls][primary_key_columns(heap', o)] = o]_vars

\* A duplicate composite key is rejected while another key is stored too.
DuplicateKeyRejectedWitness ==
    /\ last.op = "insert"
    /\ last.out = "WurmError"
    /\ heap[last.obj].cls = "CompositeKey"
    /\ Cardinality(db["CompositeKey"]) >= 2

(***************************************************************************)
(* Properties of the query methods (checked under SpecQuery).              *)
(***************************************************************************)
ValidQuery(op) == last.op = op /\ last.msg # "invalid query"

ReturnsMatchingRow ==
    /\ last.out = "ok"
    /\ primary_key_columns(heap, last.obj) \in last.matched
    /\ encode_row(heap, last.obj) \in db[last.tbl]

NotEnoughRows == last.out = "WurmError" /\ last.msg = "not enough rows returned"

TooManyRows == last.out = "WurmError" /\ last.msg = "too many rows returned"

FirstResult ==
    ValidQuery("first") =>
        IF last.matched = {} THEN NotEnoughRows ELSE ReturnsMatchingRow

\* first() has returned an instance although two rows match.
FirstResultWitness ==
    ValidQuery("first") /\ Cardinality(last.matched) >= 2 /\ last.out = "ok"

\* C5: Query.delete() removes all and only the stored rows that satisfy the
\* query's comparisons and returns their number; with no filters it removes
\* every row, so that count() afterwards is 0; the other rows are unchanged.
DeleteStep ==
    /\ last'.op = "query_delete"
    /\ last'.out = "ok"

CountStep ==
    /\ last'.op = "count"
    /\ last'.out = "ok"
    /\ last'.nfilters = 0

QueryDeleteRemovesMatching ==
    [][/\ DeleteStep =>
            /\ db'[last'.tbl] =
                 {r \in db[last'.tbl] : RowKey(last'.tbl, r) \notin last'.matched}
            /\ last'.n = Cardinality(last'.matched)
            /\ last'.nfilters = 0 => db'[last'.tbl] = {}
       /\ CountStep => last'.n = Cardinality(db[last'.tbl])
       /\ (CountStep /\ last.op = "query_delete" /\ last.out = "ok"
             /\ last.nfilters = 0) => last'.n = 0]_vars

\* A filtered delete has removed a row and left another one stored.
QueryDeleteWitness ==
    /\ last.op = "query_delete"
    /\ last.out = "ok"
    /\ last.nfilters > 0
    /\ last.n >= 1
    /\ db[last.tbl] # {}

(***************************************************************************)
(* Properties of relations and foreign keys (checked under SpecRel and     *)
(* SpecTarget).                                                            *)
(***************************************************************************)
\* The columns of field f of record type t, read on a stored row.
StoredField(t, f, r) ==
    [i \in DOMAIN columns_for(f, Meta[t].types[f]) |->
        r[columns_for(f, Meta[t].types[f])[i]]]

\* The stored rows of t whose field f references the instance o of heap h.
Referencing(d, h, t, f, o) ==
    {r \in d[t] : /\ None \notin Range(primary_key_columns(h, o))
                  /\ StoredField(t, f, r) = primary_key_columns(h, o)}

\* The primary keys of the instances of a list.
KeysOf(h, objs) == {primary_key_columns(h, objs[i]) : i \in DOMAIN objs}

\* The target specifier is the name of a record type and nothing more.
NamesOnlyRecordType == Len(relation.target) = 1 /\ relation.target[1] \in TableTypes

\* The rows a relation access on last.obj has produced: those of the query
\* it returns (strategy 'query') or those of the instances it returns.
RelationRows ==
    IF relation.lazy = "query" THEN last.matched ELSE KeysOf(heap, last.ret)

\* C7: for a relation whose target specifier names only a record type, an
\* access on an owner instance returns all and only the stored target rows
\* whose single owner-typed field references the instance; with no such
\* field the access raises the no-matching-field error (TypeError '... does
\* not have a ... field'), with several it raises the ambiguous-relation
\* error (TypeError '... has multiple ... fields').
RelationByTypeName ==
    (last.op = "relation" /\ NamesOnlyRecordType) =>
        CASE Cardinality(possible_attrs(relation.target[1], relation.owner)) = 1 ->
                /\ last.out = "ok"
                /\ \A i \in DOMAIN last.ret : heap[last.ret[i]].cls = relation.target[1]
                /\ RelationRows =
                     {RowKey(relation.target[1], r) :
                        r \in Referencing(db, heap, relation.target[1],
                                CHOOSE f \in possible_attrs(relation.target[1],
                                                            relation.owner) : TRUE,
                                last.obj)}
          [] possible_attrs(relation.target[1], relation.owner) = {} ->
                last.out = "TypeError" /\ last.msg = "does not have a field"
          [] OTHER ->
                last.out = "TypeError" /\ last.msg = "multiple fields"

\* The specifier is "T" or "T.f" with T a record type of the namespace.
ResolvesToRecordType ==
    Len(relation.target) \in {1, 2} /\ relation.target[1] \in TableTypes

\* The specifier names a field explicitly, and it is not one of the owner's
\* type (or not a field of the target at all).
WrongExplicitField ==
    /\ ResolvesToRecordType
    /\ Len(relation.target) = 2
    /\ relation.target[2] \notin possible_attrs(relation.target[1], relation.owner)

\* C8: an access to a relation either resolves or fails with a relation
\* error: a specifier with a segment that does not resolve to a record type
\* raises the invalid-target error (TypeError 'invalid target ...'), an
\* explicitly named field that is not of the owner's type raises the
\* wrong-type error (TypeError '... is not ...'), and no other error kind
\* escapes.
RelationErrorKinds ==
    last.op = "relation" =>
        /\ last.out \in {"ok", "TypeError"}
        /\ (~ResolvesToRecordType) =>
                (last.out = "TypeError" /\ last.msg = "invalid target")
        /\ WrongExplicitField => (last.out = "TypeError" /\ last.msg = "is not")

\* The instance o has been constructed by get_object in this step.
Constructed(o) ==
    /\ o \notin DOMAIN heap
    /\ o \in DOMAIN heap'
    /\ last'.op # "caller"

\* C9: an instance that get_object constructs comes back with every strict
\* relation of its record type holding all the target rows that reference
\* the instance at that moment.
StrictRelationLoaded ==
    [][\A o \in ObjIds :
        (/\ Constructed(o)
         /\ relation.owner = heap'[o].cls
         /\ relation.lazy = "strict"
         /\ find_target(relation.target, relation.owner).err = "ok")
        => \E f \in {find_target(relation.target, relation.owner)} :
            /\ relation.name \in DOMAIN heap'[o].dict
            /\ KeysOf(heap', heap'[o].dict[relation.name]) =
                 {RowKey(f.table, r) : r \in Referencing(db', heap', f.table, f.attr, o)}]_vars

\* The fields of record type t that are foreign keys.
ForeignKeys(t) == {f \in Meta[t].field_names : Meta[t].types[f] \in TableTypes}

\* The primary keys stored in table t.
StoredKeys(t) == {RowKey(t, r) : r \in db[t]}

\* A selected row holds a foreign key whose referenced row is not stored.
DanglingReference ==
    \E r \in db[last.tbl], f \in ForeignKeys(last.tbl) :
        /\ RowKey(last.tbl, r) \in last.matched
        /\ \E i \in DOMAIN StoredField(last.tbl, f, r) :
                StoredField(last.tbl, f, r)[i] # None
        /\ StoredField(last.tbl, f, r) \notin StoredKeys(Meta[last.tbl].types[f])

\* C10: decoding a row with a non-null foreign key yields the referenced
\* instance whether or not the identity map holds it: the returned instance
\* refers to an instance that carries the stored key, and decoding does not
\* fail when the referenced row is stored.
ForeignKeyDecoded ==
    (last.op \in {"one", "iterate", "relation"} /\ last.tbl \in TableTypes) =>
        /\ (last.out = "TypeError") => DanglingReference
        /\ (last.out = "ok") =>
              \A i \in DOMAIN last.ret : \A f \in ForeignKeys(last.tbl) :
                \A r \in {x \in db[last.tbl] :
                            RowKey(last.tbl, x) = primary_key_columns(heap, last.ret[i])} :
                    (\E k \in DOMAIN StoredField(last.tbl, f, r) :
                        StoredField(last.tbl, f, r)[k] # None)
                    => /\ heap[last.ret[i]].val[f] # None
                       /\ primary_key_columns(heap, heap[last.ret[i]].val[f]) =
                            StoredField(last.tbl, f, r)

(***************************************************************************)
(* Properties of the stored form of values (checked under SpecCodec).      *)
(***************************************************************************)
\* The stored tuple of field f of instance o, as to_stored encodes it.
StoredTuple(h, o, f) ==
    Cooked(to_stored(h, f, Meta[h[o].cls].types[f], h[o].val[f]))

\* What from_stored decodes from that stored tuple.
Decoded(h, o, f) == from_stored(idmap, StoredTuple(h, o, f), Meta[h[o].cls].types[f])

AllNull(stored_tuple) == \A i \in DOMAIN stored_tuple : stored_tuple[i] = None

Inserted(o) == InsertStep(o) /\ last'.out = "ok"

\* C11 as stated: for every value of a registered primitive or composite
\* type, None included, decoding the stored tuple that encoding produced
\* gives back an equal value.
RoundTrip ==
    [][\A o \in ObjIds : Inserted(o) =>
        \A f \in Meta[heap'[o].cls].field_names :
            Decoded(heap', o, f) = heap'[o].val[f]]_vars

\* C11, amended: decoding the stored tuple that encoding produced gives back
\* an equal value for None and for every value whose stored tuple holds a
\* non-null column; a value of a composite type whose fields are all None
\* is stored as all-null columns and decodes to None.
RoundTripUnlessAllNull ==
    [][\A o \in ObjIds : Inserted(o) =>
        \A f \in Meta[heap'[o].cls].field_names :
            IF AllNull(StoredTuple(heap', o, f))
            THEN Decoded(heap', o, f) = None
            ELSE Decoded(heap', o, f) = heap'[o].val[f]]_vars

\* An inserted instance holds a Color with a None field and a non-None one,
\* different in the two halves of its fields.
RoundTripWitness ==
    /\ last.op = "insert"
    /\ last.out = "ok"
    /\ last.tbl = "MultiColumnFields"
    /\ heap[last.obj].val["color"] # None
    /\ astuple("Color", heap[last.obj].val["color"])[1] = None
    /\ astuple("Color", heap[last.obj].val["color"])[4] # None


(***************************************************************************)
(* Properties of query construction (checked under SpecSession).           *)
(***************************************************************************)
\* The keyword names a declared field of the record type or, for a record
\* type with the implicit rowid, the rowid.
NamesField(t, k) ==
    \/ \E i \in DOMAIN fields_info(t) : fields_info(t)[i][1] = k /\ k # "rowid"
    \/ k = "rowid" /\ primary_key(t) = <<"rowid">>

RunsQuery(op) == op \in {"count", "first", "one", "iterate", "query_delete"}

\* C12: building a query changes neither the storage, the instances, the
\* identity map nor the session, bound or not, and fails (with the unknown-
\* field error) exactly when a keyword names neither a declared field nor the
\* implicit rowid; counting, first, one, iterating and deleting do reach the
\* storage: without a bound session a valid query of theirs fails there.
QueryConstruction ==
    [][/\ last'.op = "query" =>
            /\ UNCHANGED <<db, heap, roots, idmap, connection, registered>>
            /\ last'.out \in {"ok", "WurmError"}
            /\ last'.out = "WurmError" <=>
                   \E k \in last'.keys : ~NamesField(last'.tbl, k)
            /\ last'.out = "WurmError" => last'.msg = "invalid query"
       /\ (RunsQuery(last'.op) /\ connection = "unbound"
             /\ last'.msg # "invalid query") =>
            /\ last'.out = "WurmError"
            /\ last'.msg = "setup_connection() not called"]_vars

\* A query with a filter on the implicit rowid was built with no session.
QueryConstructionWitness ==
    /\ last.op = "query"
    /\ last.out = "ok"
    /\ connection = "unbound"
    /\ "rowid" \in last.keys

(***************************************************************************)
(* Properties of table creation (checked under SpecSession).               *)
(***************************************************************************)
\* The step is the first storage operation on a record type that was
\* declared after the session was bound.
FirstUseOfLateType ==
    /\ connection = "bound"
    /\ last'.op \in {"count", "iterate", "insert"}
    /\ last'.msg # "invalid query"
    /\ last'.tbl \notin DOMAIN db

\* C13: the first count, iteration or insert on a record type declared after
\* the session was bound succeeds, and the type has its table from then on.
LateTypeTableCreated ==
    [][FirstUseOfLateType => (last'.out = "ok" /\ last'.tbl \in DOMAIN db')]_vars


(***************************************************************************)
(* Properties of commit and delete (checked under Spec).                   *)
(***************************************************************************)
\* The instance was never inserted or decoded, or it has been deleted.
NotPersisted(o) == o \in roots /\ o \notin registered

\* C14: delete() and commit() on an instance that is not persisted fail with
\* the not-persisted error (the ValueError of Table.delete) for every record
\* type, and leave the stored rows and the identity map as they were.
NotPersistedRejected ==
    [][\A o \in ObjIds :
          (NotPersisted(o) /\ last'.op \in {"delete", "commit"} /\ last'.obj = o) =>
              /\ last'.out = "ValueError"
              /\ db' = db
              /\ idmap' = idmap]_vars


\* The instance is registered and the row under its primary key is stored.
Persisted(o) == o \in roots /\ o \in registered /\ StoredUnderKey(o) # {}

\* C15: commit() on a persisted instance succeeds and replaces exactly the
\* row stored under the instance's full primary key by the instance's
\* current field values; every other row and the number of rows are
\* unchanged.
CommitWritesOwnRow ==
    [][\A o \in ObjIds :
          (Persisted(o) /\ last'.op = "commit" /\ last'.obj = o) =>
              /\ last'.out = "ok"
              /\ db' = [db EXCEPT ![heap[o].cls] =
                            (@ \ StoredUnderKey(o)) \cup {encode_row(heap, o)}]
              /\ Cardinality(db'[heap[o].cls]) = Cardinality(db[heap[o].cls])]_vars


\* C16: after a successful delete() on a persisted instance the row stored
\* under its primary key is gone and every other row is unchanged, the
\* identity map has no entry for that key, and for a record type with the
\* implicit rowid the instance's rowid is None; a delete() that follows on
\* the same instance of such a type fails and leaves the storage unchanged.
DeleteRemovesOwnRow ==
    [][\A o \in ObjIds :
          /\ (Persisted(o) /\ last'.op = "delete" /\ last'.obj = o
                /\ last'.out = "ok") =>
                /\ db' = [db EXCEPT ![heap[o].cls] = @ \ StoredUnderKey(o)]
                /\ primary_key_columns(heap, o) \notin DOMAIN idmap'[heap[o].cls]
                /\ HasRowid(heap[o].cls) => heap'[o].val["rowid"] = None
          /\ (last.op = "delete" /\ last.out = "ok" /\ last.obj = o
                /\ o \in DOMAIN heap /\ HasRowid(heap[o].cls)
                /\ last'.op = "delete" /\ last'.obj = o) =>
                /\ last'.out # "ok"
                /\ db' = db]_vars

\* An instance with the implicit rowid was deleted while another row of its
\* table stays stored; its rowid is None.
DeleteRemovesOwnRowWitness ==
    /\ last.op = "delete"
    /\ last.out = "ok"
    /\ HasRowid(last.tbl)
    /\ db[last.tbl] # {}
    /\ last.obj \in DOMAIN heap
    /\ heap[last.obj].val["rowid"] = None


(***************************************************************************)
(* Properties of concurrent decoding (checked under SpecThreads).          *)
(***************************************************************************)
LiveWithKey(t, pk) ==
    {o \in DOMAIN heap : heap[o].cls = t /\ primary_key_columns(heap, o) = pk}

\* C17: when two threads decode the same stored row, under every
\* interleaving of the statements of get_object both are returned the same
\* instance, no lookup in the identity map fails, and there is at most one
\* live instance with the key of the row.
ThreadsShareInstance ==
    /\ \A t1, t2 \in DOMAIN threads :
          (/\ threads[t1].result # None
           /\ threads[t2].result # None
           /\ threads[t1].row = threads[t2].row) =>
              threads[t1].result = threads[t2].result
    /\ \A th \in DOMAIN threads : threads[th].err # "KeyError"
    /\ \A r \in db[ThreadTable] :
          Cardinality(LiveWithKey(ThreadTable, row_pk(ThreadTable, r))) <= 1


(***************************************************************************)
(* Properties of the column expansion (checked under SpecColumns).         *)
(***************************************************************************)
\* C18: for every field, a foreign key to a record type whose primary key
\* is itself a foreign key or spans several columns included, columns_for
\* names the columns that to_stored gives for the field's value and for
\* None, in the same order, and they are the columns sql_type_for declares.
ColumnsAgree ==
    last.op = "expand" =>
        /\ last.to_stored = last.columns_for
        /\ last.to_stored_none = last.columns_for
        /\ last.sql_type_for = last.columns_for


(***************************************************************************)
(* Properties of the identity map against the storage (checked under Spec).*)
(***************************************************************************)
\* C19: every entry of the identity map is keyed by the primary key of a
\* row that is stored now, whatever inserts, deletes and query deletes
\* came before.
EntriesAreStored ==
    \A t \in DOMAIN idmap : \A pk \in DOMAIN idmap[t] :
        \E r \in db[t] : RowKey(t, r) = pk


(***************************************************************************)
(* Properties of an inherited relation (checked under SpecInherit).        *)
(***************************************************************************)
\* C20: every access to the relation inherited from the abstract type
\* builds its query on a field of the target whose declared type is the
\* record type of the instance accessed: the resolution memoized for one
\* concrete owner is not applied to an instance of another.
InheritedRelationPerOwner ==
    [][\A o \in ObjIds :
          (last'.op = "relation" /\ last'.obj = o /\ relation'.found # <<>>) =>
              /\ Meta[relation'.found[1]].types[relation'.found[2]] = heap[o].cls
              /\ last'.out # "AssertionError"]_vars


(***************************************************************************)
(* Properties of decoding a cached row (checked under SpecCached).         *)
(***************************************************************************)
\* The step selects exactly the row with primary key pk of table t.
SelectsRow(t, pk) ==
    /\ last'.op \in {"one", "iterate"}
    /\ last'.tbl = t
    /\ last'.msg # "invalid query"
    /\ last'.matched = {pk}

\* C21: decoding a row whose primary key has an entry in the identity map
\* returns the cached instance, with its field values in memory as they
\* were, whether or not the stored values are the same.
CachedInstanceUntouched ==
    [][\A t \in DOMAIN idmap : \A pk \in DOMAIN idmap[t] :
          SelectsRow(t, pk) =>
              /\ last'.out = "ok"
              /\ last'.ret = <<idmap[t][pk]>>
              /\ heap'[idmap[t][pk]] = heap[idmap[t][pk]]]_vars

====
